---- MODULE Spec2Model ----
(***************************************************************************)
(* Digital-Twin-CNC: the spindle integrator (stepPhysics), the sampler     *)
(* loop of usePhysicsEngine, and App's analytics effects (trend history,   *)
(* scalar RUL, cycle summary).                                             *)
(*                                                                         *)
(* The program computes in IEEE doubles; the model computes in fixed point *)
(* with these units:                                                       *)
(*   time t              ms            zPos                nm              *)
(*   zVel, targetVel     um/s          wearFactor          1e-4            *)
(*   temperature         1e-6 degC     motorLoad           1e-3 percent    *)
(*   forces              mN (cutting), uN (vibration forcing)              *)
(*   displacement        nm            velocity            um/s            *)
(*   acceleration        mm/s^2        feed/spindleOverride tenths         *)
(*   Math.random()       thousandths (0..999)                              *)
(***************************************************************************)
EXTENDS Integers, Sequences, FiniteSets, TLC

(***************************************************************************)
(* Program constants                                                       *)
(***************************************************************************)
DT == 5
MAX_HISTORY == 200
WORKPIECE_Z == 350000000
RETRACT_Z == 50000000
BOTTOM_Z == 450000000

\* MACHINE_CONSTANTS (App.tsx): mass kg, stiffness N/m, damping Ns/m,
\* baseForce N, noiseLevel in nm (0.0001 m).
MACHINE_CONSTANTS ==
    [mass |-> 150, stiffness |-> 12000, damping |-> 200,
     baseForce |-> 300, noiseLevel |-> 100000]

TARGET_RPC == 3000

(***************************************************************************)
(* Arithmetic helpers                                                      *)
(***************************************************************************)
Abs(x) == IF x < 0 THEN -x ELSE x
Max(a, b) == IF a >= b THEN a ELSE b
Min(a, b) == IF a <= b THEN a ELSE b
Sgn(x) == IF x < 0 THEN -1 ELSE 1

\* floor(a*b/c) for a, b >= 0 and 0 < c <= 46340, without leaving 32 bits
\* as long as the result fits.
MulDiv(a, b, c) ==
    (a \div c) * b + (a % c) * (b \div c) + ((a % c) * (b % c)) \div c

\* a*b/c for signed a, rounded toward zero.
SMulDiv(a, b, c) == Sgn(a) * MulDiv(Abs(a), b, c)

\* d/n rounded away from zero: the exponential approach x += (target-x)*k
\* closes the gap in fixed point as it does in the limit in floating point.
DivAway(d, n) ==
    IF d >= 0 THEN (d + n - 1) \div n ELSE -((-d + n - 1) \div n)

\* sin of i * 9 degrees for i in 0..10, scaled by 10000.
SinQuarter(i) ==
    CASE i = 0 -> 0
      [] i = 1 -> 1564
      [] i = 2 -> 3090
      [] i = 3 -> 4540
      [] i = 4 -> 5878
      [] i = 5 -> 7071
      [] i = 6 -> 8090
      [] i = 7 -> 8910
      [] i = 8 -> 9511
      [] i = 9 -> 9877
      [] OTHER -> 10000

\* Math.sin at i fortieths of a turn, scaled by 10000.
Sin40(i) ==
    LET j == i % 40
    IN  IF j <= 10 THEN SinQuarter(j)
        ELSE IF j <= 20 THEN SinQuarter(20 - j)
        ELSE IF j <= 30 THEN -SinQuarter(j - 20)
        ELSE -SinQuarter(40 - j)

\* Integer square root (Math.sqrt rounded down).
RECURSIVE SqrtIter(_, _, _)
SqrtIter(n, lo, hi) ==
    IF lo >= hi THEN lo
    ELSE LET mid == (lo + hi + 1) \div 2
         IN  IF mid <= n \div mid THEN SqrtIter(n, mid, hi)
             ELSE SqrtIter(n, lo, mid - 1)

Sqrt(n) == IF n <= 0 THEN 0 ELSE SqrtIter(n, 0, Min(n, 46340))

(***************************************************************************)
(* stepPhysics (usePhysicsEngine): one integrator tick                     *)
(***************************************************************************)

\* baseForce * feedOverride * (1 + Math.random()*0.1), in mN.
CuttingForce(params, ctl, rForce) ==
    (params.baseForce * ctl.feedOverride * (10000 + rForce)) \div 100

\* NextCycleState with the cut starting at the retract height.
NextCycleState_CutsEarly(cycleState, zPos) ==
    CASE cycleState = "IDLE" -> "RAPID_DOWN"
      [] cycleState = "RAPID_DOWN" ->
            IF zPos >= RETRACT_Z THEN "CUTTING" ELSE "RAPID_DOWN"
      [] cycleState = "CUTTING" ->
            IF zPos >= BOTTOM_Z THEN "RETRACT" ELSE "CUTTING"
      [] OTHER ->
            IF zPos <= RETRACT_Z THEN "RAPID_DOWN" ELSE "RETRACT"

\* NextCycleState with a cycle that ends in IDLE once the tool is retracted.
NextCycleState_EndsIdle(cycleState, zPos) ==
    CASE cycleState = "IDLE" -> "RAPID_DOWN"
      [] cycleState = "RAPID_DOWN" ->
            IF zPos >= WORKPIECE_Z THEN "CUTTING" ELSE "RAPID_DOWN"
      [] cycleState = "CUTTING" ->
            IF zPos >= BOTTOM_Z THEN "RETRACT" ELSE "CUTTING"
      [] OTHER ->
            IF zPos <= RETRACT_Z THEN "IDLE" ELSE "RETRACT"

\* The phase after a tick that runs with isCycleActive (the switch on
\* cycleState); the comparisons read zPos as it is at the start of the tick.
NextCycleState(cycleState, zPos) ==
    CASE cycleState = "IDLE" -> "RAPID_DOWN"
      [] cycleState = "RAPID_DOWN" ->
            IF zPos >= WORKPIECE_Z THEN "CUTTING" ELSE "RAPID_DOWN"
      [] cycleState = "CUTTING" ->
            IF zPos >= BOTTOM_Z THEN "RETRACT" ELSE "CUTTING"
      [] OTHER ->
            IF zPos <= RETRACT_Z THEN "RAPID_DOWN" ELSE "RETRACT"

\* PhaseTargetVel with a retract at 0.03 m/s.
PhaseTargetVel_SlowRetract(cycleState, ctl) ==
    CASE cycleState = "IDLE" -> 0
      [] cycleState = "RAPID_DOWN" -> 20000 * ctl.feedOverride
      [] cycleState = "CUTTING" -> 2000 * ctl.feedOverride
      [] OTHER -> -30000

\* PhaseTargetVel with an axis that is not driven back in RETRACT.
PhaseTargetVel_NoRetractDrive(cycleState, ctl) ==
    CASE cycleState = "IDLE" -> 0
      [] cycleState = "RAPID_DOWN" -> 20000 * ctl.feedOverride
      [] cycleState = "CUTTING" -> 2000 * ctl.feedOverride
      [] OTHER -> 0

\* targetVel of the phase the tick starts in, in um/s.
PhaseTargetVel(cycleState, ctl) ==
    CASE cycleState = "IDLE" -> 0
      [] cycleState = "RAPID_DOWN" -> 20000 * ctl.feedOverride
      [] cycleState = "CUTTING" -> 2000 * ctl.feedOverride
      [] OTHER -> -300000

\* AccumulateWear with the increment also at exactly 150 N (>= for >).
AccumulateWear_AtThreshold(wearFactor, actualCuttingForce) ==
    IF actualCuttingForce >= 150000 THEN wearFactor + 1 ELSE wearFactor

\* "Simulate wear accumulation during heavy cuts":
\* if (actualCuttingForce > 150) wearFactor += 0.0001
AccumulateWear(wearFactor, actualCuttingForce) ==
    IF actualCuttingForce > 150000 THEN wearFactor + 1 ELSE wearFactor

\* FeedHoldLogic with a feed hold that abandons the cycle.
FeedHoldLogic_ResetsPhase(st) ==
    [cycleState |-> "IDLE", targetVel |-> 0,
     actualCuttingForce |-> 0, wearFactor |-> st.wearFactor]

\* The else branch of if (isCycleActive): feed hold.
FeedHoldLogic(st) ==
    [cycleState |-> st.cycleState, targetVel |-> 0,
     actualCuttingForce |-> 0, wearFactor |-> st.wearFactor]

\* CycleLogic with a feed that gives way under the drawn cutting force.
CycleLogic_FeedYields(st, params, ctl, rForce) ==
    IF ctl.isCycleActive
    THEN LET force == IF st.cycleState = "CUTTING"
                      THEN CuttingForce(params, ctl, rForce) ELSE 0
         IN  [cycleState |-> NextCycleState(st.cycleState, st.zPos),
              targetVel |-> PhaseTargetVel(st.cycleState, ctl)
                            - force \div 100,
              actualCuttingForce |-> force,
              wearFactor |-> IF st.cycleState = "CUTTING"
                             THEN AccumulateWear(st.wearFactor, force)
                             ELSE st.wearFactor]
    ELSE FeedHoldLogic(st)

\* "1. Controller Logic (Cycle State)": yields the new phase, the target
\* velocity, the active cutting force and the (unclamped) wear.
CycleLogic(st, params, ctl, rForce) ==
    IF ctl.isCycleActive
    THEN LET force == IF st.cycleState = "CUTTING"
                      THEN CuttingForce(params, ctl, rForce) ELSE 0
         IN  [cycleState |-> NextCycleState(st.cycleState, st.zPos),
              targetVel |-> PhaseTargetVel(st.cycleState, ctl),
              actualCuttingForce |-> force,
              wearFactor |-> IF st.cycleState = "CUTTING"
                             THEN AccumulateWear(st.wearFactor, force)
                             ELSE st.wearFactor]
    ELSE FeedHoldLogic(st)

\* ClampWear without the clamp.
ClampWear_Unclamped(w) == w

\* "Clamp wear": if (wearFactor > 1.0) wearFactor = 1.0
ClampWear(w) == IF w > 10000 THEN 10000 ELSE w

\* EffectiveStiffness with a multiplier that loses the whole of the wear,
\* max(0.25, 1 - wear).
EffectiveStiffness_WearInFull(params, zPos, wearFactor) ==
    (params.stiffness * 5 * Max(5000, 20000 - 2 * wearFactor))
        \div (Max(100000000, zPos) \div 10000)

\* Effective stiffness in N/m: stiffness * max(0.5, 1 - wear*0.5)
\* / max(0.1, zPos). The multiplier is held in 1/20000, the extension in
\* 10 um.
EffectiveStiffness(params, zPos, wearFactor) ==
    LET wearStiffnessMult == Max(10000, 20000 - wearFactor)
        extension == Max(100000000, zPos) \div 10000
    IN  (params.stiffness * 5 * wearStiffnessMult) \div extension

\* damping * (coolantActive ? 1.2 : 1.0)
EffectiveDamping(params, ctl) ==
    IF ctl.coolantActive THEN (params.damping * 12) \div 10 ELSE params.damping

\* targetRpc * spindleOverride, in rev/min.
CurrentRpm(ctl) == (ctl.targetRpc * ctl.spindleOverride) \div 10

\* omega = 2*pi*(currentRpm/60), in mrad/s.
Omega(ctl) == (CurrentRpm(ctl) * 10472) \div 100

\* x * omega / 1000 (a displacement in nm to a velocity in um/s, a velocity
\* in um/s to an acceleration in mm/s^2).
TimesOmega(x, ctl) == Sgn(x) * (MulDiv(Abs(x), Omega(ctl) \div 8, 1000) \div 125)

\* The angle omega*t as fortieths of a turn.
Phase40(ctl, t) == ((CurrentRpm(ctl) * t) \div 1500) % 40

\* The angle 2*pi*naturalFreq*t = sqrt(effectiveStiffness/mass)*t as
\* fortieths of a turn (to the nearest fortieth below).
ChatterPhase40(params, effectiveStiffness, t) ==
    LET wn == Sqrt((effectiveStiffness * 10000) \div params.mass) \* 0.01 rad/s
    IN  MulDiv(wn * 2, t, 31416) % 40

\* Unbalance force (1x RPM) in uN:
\* (currentRpm/3000)*10*0.000005*(1 + wearFactor*5) * sin(omega*t)
UnbalanceForce(ctl, wearFactor, t) ==
    LET unbalanceAmp ==
            (CurrentRpm(ctl) * (10000 + 5 * wearFactor)) \div 600000
    IN  SMulDiv(Sin40(Phase40(ctl, t)), unbalanceAmp, 10000)

\* Cutting vibration force in uN: the 4x harmonic, plus the chatter term
\* when the cutting force is above 300 N and the stiffness below 12000 N/m.
CuttingVibForce(params, ctl, cycleState, actualCuttingForce, effectiveStiffness, t) ==
    IF cycleState = "CUTTING" /\ ctl.isCycleActive
    THEN LET harmonic ==
                 SMulDiv(Sin40(4 * Phase40(ctl, t)),
                         actualCuttingForce \div 5, 10)
             chatter ==
                 IF actualCuttingForce > 300000 /\ effectiveStiffness < 12000
                 THEN SMulDiv(Sin40(ChatterPhase40(params,
                                                   effectiveStiffness, t)),
                              (actualCuttingForce * 4) \div 5, 10)
                 ELSE 0
         IN  harmonic + chatter
    ELSE 0

\* VibDisplacement with the retract suppression tied to the active cycle:
\* under feed hold the forcing and the full noise stay on.
VibDisplacement_SuppressIfActive(params, ctl, cycleState, actualCuttingForce, zPos, wearFactor, t, rNoise) ==
    LET effectiveStiffness == EffectiveStiffness(params, zPos, wearFactor)
        forcing == UnbalanceForce(ctl, wearFactor, t)
                   + CuttingVibForce(params, ctl, cycleState,
                                     actualCuttingForce, effectiveStiffness, t)
        rawNoise == ((rNoise - 500) * params.noiseLevel) \div 1000
        retracting == cycleState = "RETRACT" /\ ctl.isCycleActive
        totalVibForce == IF retracting THEN 0 ELSE forcing
        noise == IF retracting THEN SMulDiv(rawNoise, 1, 10) ELSE rawNoise
        static == SMulDiv(totalVibForce, 100, effectiveStiffness \div 10)
    IN  SMulDiv(static, 1000, 1000 + EffectiveDamping(params, ctl)) + noise

\* "3. Vibration & Sensor Model": the displacement in nm,
\* (totalVibForce/effectiveStiffness)*dampingReduction + noise, with the
\* forcing dropped and the noise cut to a tenth while retracting.
VibDisplacement(params, ctl, cycleState, actualCuttingForce, zPos, wearFactor, t, rNoise) ==
    LET effectiveStiffness == EffectiveStiffness(params, zPos, wearFactor)
        forcing == UnbalanceForce(ctl, wearFactor, t)
                   + CuttingVibForce(params, ctl, cycleState,
                                     actualCuttingForce, effectiveStiffness, t)
        rawNoise == ((rNoise - 500) * params.noiseLevel) \div 1000
        totalVibForce == IF cycleState = "RETRACT" THEN 0 ELSE forcing
        noise == IF cycleState = "RETRACT" THEN SMulDiv(rawNoise, 1, 10)
                 ELSE rawNoise
        static == SMulDiv(totalVibForce, 100, effectiveStiffness \div 10)
    IN  SMulDiv(static, 1000, 1000 + EffectiveDamping(params, ctl)) + noise

\* Motor load in 1e-3 percent:
\* min(100, max(0, baseLoad + cuttingLoad + Math.random()*2))
MotorLoad(ctl, actualCuttingForce, rLoad) ==
    LET baseLoad == (CurrentRpm(ctl) * 20) \div 3
        cuttingLoad == (actualCuttingForce * 12) \div 100
    IN  Min(100000, Max(0, baseLoad + cuttingLoad + 2 * rLoad))

\* temperature += (coolingTarget - temperature) * thermalInertia
NextTemperature(ctl, temperature, motorLoad) ==
    LET ambientTemp == 22000000
        heatGen == motorLoad * 800
        coolingTarget == IF ctl.coolantActive THEN ambientTemp + 5000000
                         ELSE ambientTemp + heatGen
    IN  IF ctl.coolantActive
        THEN temperature + DivAway(coolingTarget - temperature, 20)
        ELSE temperature + DivAway(coolingTarget - temperature, 500)

\* "5. Integrate Motion": zVel += (targetVel - zVel) * 0.05
IntegrateVel(zVel, targetVel) == zVel + DivAway(targetVel - zVel, 20)

\* One tick: [state |-> the new stateRef.current, dataPoint |-> the
\* TelemetryPoint returned]. rnd holds the tick's Math.random() draws.
stepPhysics(st, params, ctl, rnd) ==
    LET logic == CycleLogic(st, params, ctl, rnd.force)
        wearFactor == ClampWear(logic.wearFactor)
        error == logic.targetVel - st.zVel
        vibDisplacement ==
            VibDisplacement(params, ctl, logic.cycleState,
                            logic.actualCuttingForce, st.zPos, wearFactor,
                            st.t, rnd.noise)
        vibVelocity == TimesOmega(vibDisplacement, ctl)
        vibAccel == TimesOmega(vibVelocity, ctl)
        motorLoad == MotorLoad(ctl, logic.actualCuttingForce, rnd.load)
        temperature == NextTemperature(ctl, st.temperature, motorLoad)
        zVel == IntegrateVel(st.zVel, logic.targetVel)
        zPos == st.zPos + zVel * DT
        t == st.t + DT
    IN  [state |-> [t |-> t, zPos |-> zPos, zVel |-> zVel,
                    cycleState |-> logic.cycleState,
                    temperature |-> temperature, wearFactor |-> wearFactor],
         dataPoint |-> [timestamp |-> t,
                        displacement |-> vibDisplacement,
                        velocity |-> vibVelocity,
                        acceleration |-> vibAccel,
                        zPos |-> zPos,
                        torque |-> SMulDiv(error * 75, 1250, 7854),
                        rpm |-> CurrentRpm(ctl) * 1000 + 5 * rnd.rpm,
                        motorLoad |-> motorLoad,
                        temperature |-> temperature]]

(***************************************************************************)
(* App.tsx: analytics derived from the telemetry buffer                    *)
(***************************************************************************)

\* seq.slice(-n)
LastN(seq, n) ==
    IF Len(seq) <= n THEN seq ELSE SubSeq(seq, Len(seq) - n + 1, Len(seq))

\* The sum and the maximum of f[1..n] (Array.reduce, Math.max(...)).
RECURSIVE SumOver(_, _, _)
SumOver(f, n, acc) == IF n = 0 THEN acc ELSE SumOver(f, n - 1, acc + f[n])

RECURSIVE MaxOver(_, _, _)
MaxOver(f, n, acc) == IF n = 0 THEN acc ELSE MaxOver(f, n - 1, Max(acc, f[n]))

\* HealthStatus with CRITICAL only when both metrics are past their limits.
HealthStatus_BothMetrics(rmsDisp, avgLoad) ==
    IF rmsDisp > 50000 /\ avgLoad > 95000 THEN "CRITICAL"
    ELSE IF rmsDisp > 20000 \/ avgLoad > 80000 THEN "WARNING"
    ELSE "OPTIMAL"

\* The status thresholds of stats: rmsDisp in nm, avgLoad in 1e-3 percent.
HealthStatus(rmsDisp, avgLoad) ==
    IF rmsDisp > 50000 \/ avgLoad > 95000 THEN "CRITICAL"
    ELSE IF rmsDisp > 20000 \/ avgLoad > 80000 THEN "WARNING"
    ELSE "OPTIMAL"

\* Stats with the spindle frequency reported for an empty window too.
Stats_EmptyWithFrequency(telemetry, controllerState) ==
    LET recentWindow == LastN(telemetry, 30)
        n == Len(recentWindow)
    IN  IF n = 0
        THEN [rmsDisplacement |-> 0, peakVelocity |-> 0,
              rmsAcceleration |-> 0,
              dominantFrequency |->
                  (controllerState.targetRpc
                   * controllerState.spindleOverride) \div 60,
              avgLoad |-> 0,
              status |-> "OPTIMAL"]
        ELSE LET dispUm == [i \in 1..n |->
                               Abs(recentWindow[i].displacement) \div 1000]
                 accDm == [i \in 1..n |->
                               Abs(recentWindow[i].acceleration) \div 100]
                 \* mean squares; each square is divided before it is summed
                 meanSqDisp ==
                     SumOver([i \in 1..n |-> MulDiv(dispUm[i], dispUm[i], n)],
                             n, 0)
                 meanSqAcc ==
                     SumOver([i \in 1..n |-> MulDiv(accDm[i], accDm[i], n)],
                             n, 0)
                 rmsDisp == Sqrt(meanSqDisp) * 1000
                 maxVel == MaxOver([i \in 1..n |->
                                       Abs(recentWindow[i].velocity)], n, 0)
                 rmsAcc == Sqrt(meanSqAcc)
                 avgLoad == SumOver([i \in 1..n |-> recentWindow[i].motorLoad],
                                    n, 0) \div n
             IN  [rmsDisplacement |-> rmsDisp, peakVelocity |-> maxVel,
                  rmsAcceleration |-> rmsAcc,
                  dominantFrequency |->
                      (controllerState.targetRpc
                       * controllerState.spindleOverride) \div 60,
                  avgLoad |-> avgLoad,
                  status |-> HealthStatus(rmsDisp, avgLoad)]

\* stats (useMemo over telemetry and controllerState). rmsDisplacement in
\* nm, peakVelocity in um/s, rmsAcceleration in 0.1 m/s^2, dominantFrequency
\* in 0.1 Hz, avgLoad in 1e-3 percent.
Stats(telemetry, controllerState) ==
    LET recentWindow == LastN(telemetry, 30)
        n == Len(recentWindow)
    IN  IF n = 0
        THEN [rmsDisplacement |-> 0, peakVelocity |-> 0,
              rmsAcceleration |-> 0, dominantFrequency |-> 0, avgLoad |-> 0,
              status |-> "OPTIMAL"]
        ELSE LET dispUm == [i \in 1..n |->
                               Abs(recentWindow[i].displacement) \div 1000]
                 accDm == [i \in 1..n |->
                               Abs(recentWindow[i].acceleration) \div 100]
                 \* mean squares; each square is divided before it is summed
                 meanSqDisp ==
                     SumOver([i \in 1..n |-> MulDiv(dispUm[i], dispUm[i], n)],
                             n, 0)
                 meanSqAcc ==
                     SumOver([i \in 1..n |-> MulDiv(accDm[i], accDm[i], n)],
                             n, 0)
                 rmsDisp == Sqrt(meanSqDisp) * 1000
                 maxVel == MaxOver([i \in 1..n |->
                                       Abs(recentWindow[i].velocity)], n, 0)
                 rmsAcc == Sqrt(meanSqAcc)
                 avgLoad == SumOver([i \in 1..n |-> recentWindow[i].motorLoad],
                                    n, 0) \div n
             IN  [rmsDisplacement |-> rmsDisp, peakVelocity |-> maxVel,
                  rmsAcceleration |-> rmsAcc,
                  dominantFrequency |->
                      (controllerState.targetRpc
                       * controllerState.spindleOverride) \div 60,
                  avgLoad |-> avgLoad,
                  status |-> HealthStatus(rmsDisp, avgLoad)]

\* stats.peakVelocity * 1000 * 0.707, "Convert to RMS mm/s", in um/s.
RmsVelocity(stats) == MulDiv(stats.peakVelocity, 707, 1000)

\* TrendUpdate with >= for > in the test of the time bucket.
TrendUpdate_SameBucket(prev, t, stats) ==
    LET timeFloored == (t \div 500) * 500
    IN  IF Len(prev) = 0 \/ timeFloored >= prev[Len(prev)].time
        THEN LastN(Append(prev, [time |-> timeFloored,
                                 rmsVelocity |-> RmsVelocity(stats)]), 60)
        ELSE prev

\* The setTrendHistory updater of the trend effect, run with the rendered
\* currentStat.t and stats.
TrendUpdate(prev, t, stats) ==
    LET timeFloored == (t \div 500) * 500
    IN  IF Len(prev) = 0 \/ timeFloored > prev[Len(prev)].time
        THEN LastN(Append(prev, [time |-> timeFloored,
                                 rmsVelocity |-> RmsVelocity(stats)]), 60)
        ELSE prev

\* Math.log(num / den) for num, den > 0, in 1e-3: the quotient is halved
\* into [1, 2) and ln r = 2 atanh((r - 1)/(r + 1)) is summed to three terms.
RECURSIVE LnReduce(_, _, _)
LnReduce(num, den, k) ==
    IF den * 2 <= num THEN LnReduce(num, den * 2, k + 1)
    ELSE [k |-> k, den |-> den]

LnMilli(num, den) ==
    LET r == LnReduce(num, den, 0)
        z == ((num - r.den) * 10000) \div (num + r.den)
        z2 == (z * z) \div 10000
        series == z + (z * z2) \div 30000 + (((z * z2) \div 10000) * z2) \div 50000
    IN  r.k * 693 + series \div 5

\* "Degradation factor": lambda = stressFactor * (1 + rmsAcceleration / 10),
\* in 1e-4; stressFactor is 0.05, 0.15 (WARNING) or 0.35 (CRITICAL).
RulLambda(stats) ==
    LET stressFactor == IF stats.status = "CRITICAL" THEN 35
                        ELSE IF stats.status = "WARNING" THEN 15 ELSE 5
    IN  stressFactor * (100 + stats.rmsAcceleration)

\* rulPrediction without the test of the start value against the limit.
rulPrediction_NoLimitTest(stats, trendLength) ==
    IF trendLength < 5 THEN -1
    ELSE LET startVal == RmsVelocity(stats)
             lambda == RulLambda(stats)
         IN  IF lambda <= 0 THEN -1
             ELSE LET tRemaining ==
                          (LnMilli(11200, Max(100, startVal)) * 10000)
                              \div lambda
                  IN  IF tRemaining > 360000 THEN -1 ELSE tRemaining * 20

\* rulPrediction (useMemo over stats and trendHistory), "Scalar RUL for
\* Widget": -1 is the sentinel, any other value is a time in 0.01 s.
\* startVal and the limit 11.2 are in um/s; tRemaining is in 0.01 s and is
\* compared with 3600 s.
rulPrediction(stats, trendLength) ==
    IF trendLength < 5 THEN -1
    ELSE LET startVal == RmsVelocity(stats)
             lambda == RulLambda(stats)
         IN  IF startVal >= 11200 THEN 0
             ELSE IF lambda <= 0 THEN -1
             ELSE LET tRemaining ==
                          (LnMilli(11200, Max(100, startVal)) * 10000)
                              \div lambda
                  IN  IF tRemaining > 360000 THEN -1 ELSE tRemaining * 20

(***************************************************************************)
(* TelemetryCharts: spectrumData                                           *)
(***************************************************************************)

\* The loop "for (let k = 0; k < N / 2; k++)" with the bin of the Nyquist
\* frequency included (k <= N / 2).
RECURSIVE SpectrumLoop_WithNyquist(_, _, _)
SpectrumLoop_WithNyquist(k, N, spectrum) ==
    IF 2 * k <= N
    THEN SpectrumLoop_WithNyquist(k + 1, N,
             IF k > 0
             THEN Append(spectrum,
                         [k |-> k, freq |-> (k * 4000 + N) \div (2 * N)])
             ELSE spectrum)
    ELSE spectrum

\* The loop "for (let k = 0; k < N / 2; k++)" of spectrumData from k on:
\* a bin is pushed if (k > 0). freq is (k * sampleRate / N).toFixed(1) with
\* sampleRate = 200, in 0.1 Hz. The magnitude of a bin, a sum over the
\* window, decides nothing about which bins are pushed and is not held.
RECURSIVE SpectrumLoop(_, _, _)
SpectrumLoop(k, N, spectrum) ==
    IF 2 * k < N
    THEN SpectrumLoop(k + 1, N,
             IF k > 0
             THEN Append(spectrum,
                         [k |-> k, freq |-> (k * 4000 + N) \div (2 * N)])
             ELSE spectrum)
    ELSE spectrum

\* spectrumData (useMemo over data): empty below 32 samples, else the bins
\* of the last N = min(data.length, 128) samples.
spectrumData(data) ==
    IF Len(data) < 32 THEN <<>>
    ELSE SpectrumLoop(0, Min(Len(data), 128), <<>>)

(***************************************************************************)
(* TelemetryCharts: predictionResult (the forecast curve)                  *)
(***************************************************************************)

\* Math.exp(x), x and the result in 1e-4: x = k ln 2 + r with 0 <= r < ln 2,
\* e^r is summed to the fifth power, and results past 2^17 saturate there.
Exp(x) ==
    LET k == x \div 6931
        r == x % 6931
        t2 == (r * r) \div 20000
        t3 == (t2 * r) \div 30000
        t4 == (t3 * r) \div 40000
        t5 == (t4 * r) \div 50000
        er == 10000 + r + t2 + t3 + t4 + t5
    IN  IF k > 16 THEN 10000 * 2^17
        ELSE IF k >= 0 THEN er * 2^k
        ELSE IF k < -30 THEN 0
        ELSE er \div 2^(-k)

\* a*b/c as MulDiv, saturating at 2e9 where the product leaves 32 bits.
SatMulDiv(a, b, c) ==
    IF b > 0 /\ a \div c >= 2000000000 \div b THEN 2000000000
    ELSE MulDiv(a, b, c)

\* viscosity = 150 * Math.exp(-0.035 * (temperature - 25)), in 0.01 cSt.
Viscosity(temperature) ==
    (150 * Exp(-SMulDiv(temperature - 25000000, 7, 20000))) \div 100

\* latestTelemetry = data[data.length - 1] || {temperature: 45, viscosity:
\* 68}. stepPhysics emits viscosity with every data point, computed from
\* the temperature it emits; the model's data point carries the
\* temperature, and the viscosity is read off it here.
LatestTelemetry(data) ==
    IF Len(data) = 0 THEN [temperature |-> 45000000, viscosity |-> 6800]
    ELSE [temperature |-> data[Len(data)].temperature,
          viscosity |-> Viscosity(data[Len(data)].temperature)]

\* Math.pow(68 / Math.max(10, viscosity), 0.5), in 1e-3.
ViscFactor(viscosity) == Sqrt((680000000 \div Max(1000, viscosity)) * 10)

\* Math.max(1, temperature / 50), in 1e-3.
TempFactor(temperature) == Max(1000, temperature \div 50000)

\* "Dynamic Lambda" of the forecast, in 1e-4:
\* stressFactor * (1 + rmsAcceleration / 10) * viscFactor * tempFactor.
ForecastLambda(stats, latestTelemetry) ==
    LET stressFactor == IF stats.status = "CRITICAL" THEN 35
                        ELSE IF stats.status = "WARNING" THEN 15 ELSE 5
        viscFactor == ViscFactor(latestTelemetry.viscosity)
        tempFactor == TempFactor(latestTelemetry.temperature)
    IN  MulDiv(MulDiv(stressFactor * (100 + stats.rmsAcceleration),
                      viscFactor, 1000), tempFactor, 1000)

\* val = startVal * Math.exp(lambda * (tOffset * 0.1)) at step i, where
\* tOffset = i * 2; in um/s.
ForecastVal(startVal, lambda, i) ==
    SatMulDiv(Exp((lambda * i) \div 5), startVal, 10000)

\* The forecast loop with the crossing assigned at every step at or above
\* the limit (no test of failureTime === -1).
RECURSIVE ForecastLoop_LastCrossing(_, _, _, _, _)
ForecastLoop_LastCrossing(i, startTime, startVal, lambda, acc) ==
    IF i > 20 THEN acc
    ELSE LET t == startTime + i * 2000
             val == ForecastVal(startVal, lambda, i)
             step == [failureTime |-> IF val >= 11200 THEN t
                              ELSE acc.failureTime,
                      forecast |-> Append(acc.forecast,
                                          [rawTime |-> t, forecast |-> val])]
         IN  CHOOSE r \in {ForecastLoop_LastCrossing(i + 1, startTime, startVal, lambda, next) :
                               next \in {step}} : TRUE

\* "for (let i = 0; i <= 20; i++)": each step is 2 time units (2000 ms)
\* after startTime; the first val at or above criticalLimit 11.2 mm/s sets
\* failureTime. The result of a step is bound as a value before the next
\* step starts from it.
RECURSIVE ForecastLoop(_, _, _, _, _)
ForecastLoop(i, startTime, startVal, lambda, acc) ==
    IF i > 20 THEN acc
    ELSE LET t == startTime + i * 2000
             val == ForecastVal(startVal, lambda, i)
             step == [failureTime |-> IF acc.failureTime = -1 /\ val >= 11200
                              THEN t ELSE acc.failureTime,
                      forecast |-> Append(acc.forecast,
                                          [rawTime |-> t, forecast |-> val])]
         IN  CHOOSE r \in {ForecastLoop(i + 1, startTime, startVal, lambda, next) :
                               next \in {step}} : TRUE

\* predictionResult (useMemo over stats, trendHistory and latestTelemetry):
\* the forecast starts from the last trend record, or from the current rms
\* velocity at time 0 when there is none.
predictionResult(stats, trendHistory, latestTelemetry) ==
    LET lastPoint == IF Len(trendHistory) > 0
                     THEN trendHistory[Len(trendHistory)]
                     ELSE [time |-> 0, rmsVelocity |-> RmsVelocity(stats)]
        startVal == lastPoint.rmsVelocity
        startTime == lastPoint.time
        lambda == ForecastLambda(stats, latestTelemetry)
        curve == ForecastLoop(0, startTime, startVal, lambda,
                             [failureTime |-> -1, forecast |-> <<>>])
    IN  [forecast |-> curve.forecast,
         failureTime |-> curve.failureTime,
         currentVal |-> startVal,
         lambda |-> lambda,
         limit |-> 11200,
         viscFactor |-> ViscFactor(latestTelemetry.viscosity),
         tempFactor |-> TempFactor(latestTelemetry.temperature)]

(***************************************************************************)
(* App.tsx: the cycle summary effect                                       *)
(***************************************************************************)

\* The reset of cycleDataRef on "Cycle Just Started".
ResetCycleData(currentStat) ==
    [maxVib |-> 0, maxTemp |-> 0, loadSum |-> 0, count |-> 0,
     startWear |-> currentStat.wear]

\* "Cycle Active: Accumulate Data". maxVib in um/s (velMM = peakVelocity *
\* 1000 mm/s), maxTemp in 1e-6 degC.
AccumulateCycleData(data, stats, telemetry) ==
    LET velMM == stats.peakVelocity
        temp == IF Len(telemetry) = 0 THEN 0
                ELSE telemetry[Len(telemetry)].temperature
    IN  [data EXCEPT !.maxVib = Max(data.maxVib, velMM),
                     !.maxTemp = Max(data.maxTemp, temp),
                     !.loadSum = data.loadSum + stats.avgLoad,
                     !.count = data.count + 1]

\* FinalStatus with the critical load limit at 90 percent.
FinalStatus_LoadAt90(maxVib, avgLoad) ==
    IF maxVib > 11200 \/ avgLoad > 90000 THEN "CRITICAL"
    ELSE IF maxVib > 4500 \/ avgLoad > 80000 THEN "WARNING"
    ELSE "OPTIMAL"

\* finalStatus of the report: maxVib against 11.2 / 4.5 mm/s, avgLoad
\* against 95 / 80 percent.
FinalStatus(maxVib, avgLoad) ==
    IF maxVib > 11200 \/ avgLoad > 95000 THEN "CRITICAL"
    ELSE IF maxVib > 4500 \/ avgLoad > 80000 THEN "WARNING"
    ELSE "OPTIMAL"

\* "Cycle Just Ended: Generate Report" (Date.now() is left out). duration
\* in ms (count * 0.05 s).
MakeReport(data, currentStat) ==
    LET avgLoad == IF data.count > 0 THEN data.loadSum \div data.count ELSE 0
    IN  [duration |-> data.count * 50,
         maxVibration |-> data.maxVib,
         maxTemp |-> data.maxTemp,
         avgLoad |-> avgLoad,
         toolWearDelta |-> currentStat.wear - data.startWear,
         finalStatus |-> FinalStatus(data.maxVib, avgLoad)]

\* CycleSummaryEffect with a report whenever the cycle is not active.
CycleSummaryEffect_NoEdgeTest(sys) ==
    LET active == sys.controllerState.isCycleActive
        was == sys.wasCycleActiveRef
        stats == Stats(sys.telemetry, sys.controllerState)
        started == IF active /\ ~was
                   THEN ResetCycleData(sys.simulationState)
                   ELSE sys.cycleDataRef
        data == IF active
                THEN AccumulateCycleData(started, stats, sys.telemetry)
                ELSE started
        ended == ~active
    IN  [sys EXCEPT
            !.cycleDataRef = data,
            !.report = IF ended
                       THEN <<MakeReport(data, sys.simulationState)>>
                       ELSE @,
            !.showSummary = IF ended THEN TRUE ELSE @,
            !.reportsEmitted = IF ended THEN @ + 1 ELSE @,
            !.wasCycleActiveRef = active]

\* One run of the cycle summary effect against the rendered values. sys is
\* the whole program state as a record.
CycleSummaryEffect(sys) ==
    LET active == sys.controllerState.isCycleActive
        was == sys.wasCycleActiveRef
        stats == Stats(sys.telemetry, sys.controllerState)
        started == IF active /\ ~was
                   THEN ResetCycleData(sys.simulationState)
                   ELSE sys.cycleDataRef
        data == IF active
                THEN AccumulateCycleData(started, stats, sys.telemetry)
                ELSE started
        ended == ~active /\ was
    IN  [sys EXCEPT
            !.cycleDataRef = data,
            !.report = IF ended
                       THEN <<MakeReport(data, sys.simulationState)>>
                       ELSE @,
            !.showSummary = IF ended THEN TRUE ELSE @,
            !.reportsEmitted = IF ended THEN @ + 1 ELSE @,
            !.wasCycleActiveRef = active]

\* The trend history effect against the rendered values.
TrendEffect(sys) ==
    [sys EXCEPT !.trendHistory =
        TrendUpdate(@, sys.simulationState.t,
                    Stats(sys.telemetry, sys.controllerState))]

(***************************************************************************)
(* Operator controls (CncController) and the render they cause             *)
(***************************************************************************)

\* ControllerRender without the effect of usePhysicsEngine that copies the
\* controller into controllerRef: the integrator keeps the command it had.
ControllerRender_StaleRef(sys, controller) ==
    LET rising == controller.isCycleActive /\ ~sys.controllerState.isCycleActive
        falling == ~controller.isCycleActive /\ sys.controllerState.isCycleActive
        edge == sys.cycleEdge
        committed ==
            [sys EXCEPT
                !.controllerState = controller,
                !.cycleEdge =
                    IF rising
                    THEN [edge EXCEPT
                            !.wearAtRise = sys.stateRef.wearFactor,
                            !.tickLoadSum = 0, !.tickCount = 0]
                    ELSE IF falling
                    THEN [edge EXCEPT
                            !.fallingEdges = @ + 1,
                            !.wearDelta =
                                sys.stateRef.wearFactor - edge.wearAtRise,
                            !.meanTickLoad =
                                IF edge.tickCount = 0 THEN 0
                                ELSE edge.tickLoadSum \div edge.tickCount]
                    ELSE edge]
    IN  CycleSummaryEffect(committed)

\* The render after setControllerState: usePhysicsEngine's effect copies
\* the controller into controllerRef, stats is recomputed (a new object),
\* and so the cycle summary effect runs. The trend effect does not run:
\* currentStat.t and stats.peakVelocity are unchanged.
\* cycleEdge records the integrator's wear at a rising edge, and at a falling
\* edge the wear gained and the mean per-tick load since the rising edge.
ControllerRender(sys, controller) ==
    LET rising == controller.isCycleActive /\ ~sys.controllerState.isCycleActive
        falling == ~controller.isCycleActive /\ sys.controllerState.isCycleActive
        edge == sys.cycleEdge
        committed ==
            [sys EXCEPT
                !.controllerState = controller,
                !.controllerRef = controller,
                !.cycleEdge =
                    IF rising
                    THEN [edge EXCEPT
                            !.wearAtRise = sys.stateRef.wearFactor,
                            !.tickLoadSum = 0, !.tickCount = 0]
                    ELSE IF falling
                    THEN [edge EXCEPT
                            !.fallingEdges = @ + 1,
                            !.wearDelta =
                                sys.stateRef.wearFactor - edge.wearAtRise,
                            !.meanTickLoad =
                                IF edge.tickCount = 0 THEN 0
                                ELSE edge.tickLoadSum \div edge.tickCount]
                    ELSE edge]
    IN  CycleSummaryEffect(committed)

handleStart(sys) ==
    ControllerRender(sys, [sys.controllerState EXCEPT !.isCycleActive = TRUE])

handleStop(sys) ==
    ControllerRender(sys, [sys.controllerState EXCEPT !.isCycleActive = FALSE])

toggleCoolant(sys) ==
    ControllerRender(sys, [sys.controllerState EXCEPT !.coolantActive = ~@])

\* onChange of the "Feed Rate %" range input (min 0, max 2, step 0.1).
setFeedOverride(sys, v) ==
    ControllerRender(sys, [sys.controllerState EXCEPT !.feedOverride = v])

\* onChange of the "Spindle %" range input (min 0, max 1.5, step 0.1).
setSpindleOverride(sys, v) ==
    ControllerRender(sys, [sys.controllerState EXCEPT !.spindleOverride = v])

(***************************************************************************)
(* usePhysicsEngine: the requestAnimationFrame loop                        *)
(***************************************************************************)

\* PushTelemetry with the slice taken from the front of the new array.
PushTelemetry_KeepsOldest(prev, dataPoint) ==
    SubSeq(Append(prev, dataPoint), 1, Min(Len(prev) + 1, MAX_HISTORY))

\* The setTelemetry updater.
PushTelemetry(prev, dataPoint) == LastN(Append(prev, dataPoint), MAX_HISTORY)

\* One call of loop(timestamp): a physics step, and when more than 50 ms
\* have passed since the last chart update, the two state updates and the
\* render they cause (trend effect, cycle summary effect).
loop(sys, timestamp, rnd) ==
    LET step == stepPhysics(sys.stateRef, MACHINE_CONSTANTS,
                            sys.controllerRef, rnd)
        edge == sys.cycleEdge
        stepped ==
            [sys EXCEPT
                !.stateRef = step.state,
                !.frameTime = timestamp,
                !.lastTick = <<[before |-> sys.stateRef,
                                ctl |-> sys.controllerRef,
                                dataPoint |-> step.dataPoint]>>,
                !.phaseLog =
                    IF step.state.cycleState = sys.stateRef.cycleState THEN @
                    ELSE Append(@, step.state.cycleState),
                !.cycleEdge =
                    IF sys.controllerRef.isCycleActive
                    THEN [edge EXCEPT
                            !.tickLoadSum = @ + step.dataPoint.motorLoad,
                            !.tickCount = @ + 1]
                    ELSE edge]
    IN  IF timestamp - sys.lastChartUpdate > 50
        THEN CycleSummaryEffect(TrendEffect(
                 [stepped EXCEPT
                     !.simulationState =
                         [t |-> step.state.t,
                          zPos |-> step.state.zPos,
                          vibration |-> step.dataPoint.displacement,
                          cycleState |-> step.state.cycleState,
                          wear |-> step.state.wearFactor],
                     !.telemetry = PushTelemetry(@, step.dataPoint),
                     !.lastChartUpdate = timestamp]))
        ELSE stepped

(***************************************************************************)
(* State                                                                   *)
(***************************************************************************)
VARIABLES
    stateRef,           \* usePhysicsEngine: stateRef.current
    controllerState,    \* App: controllerState
    controllerRef,      \* usePhysicsEngine: controllerRef.current
    simulationState,    \* usePhysicsEngine: simulationState (currentStat)
    telemetry,          \* usePhysicsEngine: telemetry
    lastChartUpdate,    \* loop effect: lastChartUpdate
    frameTime,          \* the timestamp of the latest animation frame
    trendHistory,       \* App: trendHistory
    cycleDataRef,       \* App: cycleDataRef.current
    wasCycleActiveRef,  \* App: wasCycleActiveRef.current
    report,             \* App: report (<<>> is null)
    showSummary,        \* App: showSummary
    reportsEmitted,     \* history: number of setReport calls
    cycleEdge,          \* history: what the integrator held at the cycle edges
    lastTick,           \* history: the latest tick (<<>> before the first):
                        \* the state and command it read, the sample it made
    phaseLog,           \* history: the phases in the order they were entered
    ticks,              \* frames run since the initial state
    cmds                \* operator commands given since the initial state

vars == <<stateRef, controllerState, controllerRef, simulationState,
          telemetry, lastChartUpdate, frameTime, trendHistory, cycleDataRef,
          wasCycleActiveRef, report, showSummary, reportsEmitted, cycleEdge,
          lastTick, phaseLog, ticks, cmds>>

\* The program state as one record, and the step to a given record.
Sys ==
    [stateRef |-> stateRef, controllerState |-> controllerState,
     controllerRef |-> controllerRef, simulationState |-> simulationState,
     telemetry |-> telemetry, lastChartUpdate |-> lastChartUpdate,
     frameTime |-> frameTime, trendHistory |-> trendHistory,
     cycleDataRef |-> cycleDataRef, wasCycleActiveRef |-> wasCycleActiveRef,
     report |-> report, showSummary |-> showSummary,
     reportsEmitted |-> reportsEmitted, cycleEdge |-> cycleEdge,
     lastTick |-> lastTick, phaseLog |-> phaseLog]

Is(s) ==
    /\ stateRef = s.stateRef
    /\ controllerState = s.controllerState
    /\ controllerRef = s.controllerRef
    /\ simulationState = s.simulationState
    /\ telemetry = s.telemetry
    /\ lastChartUpdate = s.lastChartUpdate
    /\ frameTime = s.frameTime
    /\ trendHistory = s.trendHistory
    /\ cycleDataRef = s.cycleDataRef
    /\ wasCycleActiveRef = s.wasCycleActiveRef
    /\ report = s.report
    /\ showSummary = s.showSummary
    /\ reportsEmitted = s.reportsEmitted
    /\ cycleEdge = s.cycleEdge
    /\ lastTick = s.lastTick
    /\ phaseLog = s.phaseLog

Becomes(s) ==
    /\ stateRef' = s.stateRef
    /\ controllerState' = s.controllerState
    /\ controllerRef' = s.controllerRef
    /\ simulationState' = s.simulationState
    /\ telemetry' = s.telemetry
    /\ lastChartUpdate' = s.lastChartUpdate
    /\ frameTime' = s.frameTime
    /\ trendHistory' = s.trendHistory
    /\ cycleDataRef' = s.cycleDataRef
    /\ wasCycleActiveRef' = s.wasCycleActiveRef
    /\ report' = s.report
    /\ showSummary' = s.showSummary
    /\ reportsEmitted' = s.reportsEmitted
    /\ cycleEdge' = s.cycleEdge
    /\ lastTick' = s.lastTick
    /\ phaseLog' = s.phaseLog

\* The state after App has mounted: the useState/useRef initial values, and
\* the trend effect's first run (it appends the record of time 0).
Mounted ==
    LET controller ==
            [isCycleActive |-> FALSE, feedOverride |-> 10,
             spindleOverride |-> 10, targetRpc |-> TARGET_RPC,
             activeGCodeLine |-> 0, coolantActive |-> FALSE]
    IN  [stateRef |-> [t |-> 0, zPos |-> 0, zVel |-> 0,
                       cycleState |-> "IDLE", temperature |-> 45000000,
                       wearFactor |-> 0],
         controllerState |-> controller,
         controllerRef |-> controller,
         simulationState |-> [t |-> 0, zPos |-> 0, vibration |-> 0,
                              cycleState |-> "IDLE", wear |-> 0],
         telemetry |-> <<>>,
         lastChartUpdate |-> 0,
         frameTime |-> 0,
         trendHistory |-> TrendUpdate(<<>>, 0, Stats(<<>>, controller)),
         cycleDataRef |-> [maxVib |-> 0, maxTemp |-> 0, loadSum |-> 0,
                           count |-> 0, startWear |-> 0],
         wasCycleActiveRef |-> FALSE,
         report |-> <<>>,
         showSummary |-> FALSE,
         reportsEmitted |-> 0,
         cycleEdge |-> [wearAtRise |-> 0, tickLoadSum |-> 0, tickCount |-> 0,
                        fallingEdges |-> 0, wearDelta |-> 0,
                        meanTickLoad |-> 0],
         lastTick |-> <<>>,
         phaseLog |-> <<"IDLE">>]

(***************************************************************************)
(* Inputs and bounds                                                       *)
(***************************************************************************)
MaxTicks == 2
MaxCmds == 2

\* The draws of Math.random() in one tick, in thousandths.
LowDraw == [force |-> 0, noise |-> 0, load |-> 0, rpm |-> 0]
HighDraw == [force |-> 999, noise |-> 999, load |-> 999, rpm |-> 999]

\* What a frame brings: the milliseconds since the frame before (17: a
\* 60 Hz display, 60: a frame that comes late) and the tick's draws.
FrameInputs ==
    {[delta |-> 17, rnd |-> LowDraw],
     [delta |-> 60, rnd |-> HighDraw]}

\* Values of the two range inputs, in tenths.
FeedInputs == {5, 20}
SpindleInputs == {15}

\* The inputs of the nominal run: a 60 Hz display and mid-range draws.
NominalInput ==
    [delta |-> 17,
     rnd |-> [force |-> 500, noise |-> 700, load |-> 500, rpm |-> 500]]

\* n frames of the nominal run from s. The first half is computed, and
\* bound as a value, before the second half starts from it.
RECURSIVE Advance(_, _)
Advance(s, n) ==
    IF n = 0 THEN s
    ELSE IF n = 1
    THEN loop(s, s.frameTime + NominalInput.delta, NominalInput.rnd)
    ELSE CHOOSE r \in {Advance(half, n - n \div 2) :
                          half \in {Advance(s, n \div 2)}} : TRUE

\* Numbers of frames of the nominal run, after CYCLE START at time 0, at
\* which exploration starts.
Checkpoints == {369, 1189, 1477, 18056}

InitialStates == {Mounted} \cup {Advance(handleStart(Mounted), n) : n \in Checkpoints}

(***************************************************************************)
(* Actions                                                                 *)
(***************************************************************************)
Init ==
    /\ \E s \in InitialStates : Is(s)
    /\ ticks = 0
    /\ cmds = 0

Frame(d, rnd) ==
    /\ ticks < MaxTicks
    /\ Becomes(loop(Sys, frameTime + d, rnd))
    /\ ticks' = ticks + 1
    /\ cmds' = cmds

Command(s) ==
    /\ cmds < MaxCmds
    /\ Becomes(s)
    /\ cmds' = cmds + 1
    /\ ticks' = ticks

CycleStart == Command(handleStart(Sys))
FeedHold == Command(handleStop(Sys))
CoolantToggle == Command(toggleCoolant(Sys))
FeedChange == \E v \in FeedInputs : Command(setFeedOverride(Sys, v))
SpindleChange == \E v \in SpindleInputs : Command(setSpindleOverride(Sys, v))
Tick == \E in \in FrameInputs : Frame(in.delta, in.rnd)

Next ==
    \/ Tick
    \/ CycleStart
    \/ FeedHold
    \/ CoolantToggle
    \/ FeedChange
    \/ SpindleChange

Spec == Init /\ [][Next]_vars


(***************************************************************************)
(* Properties of the machining cycle (stepPhysics)                         *)
(***************************************************************************)

\* The latest tick was one run under FEED HOLD (controller.isCycleActive
\* false) / under CYCLE START.
TickedHeld == lastTick # <<>> /\ ~lastTick[1].ctl.isCycleActive
TickedActive == lastTick # <<>> /\ lastTick[1].ctl.isCycleActive

\* C1: a tick that runs while the cycle is not active leaves the Z position
\* exactly where it was before the tick.
C1_FeedHoldKeepsPosition ==
    TickedHeld => stateRef.zPos = lastTick[1].before.zPos

\* C2: while the cycle is not active no step changes the phase, neither a
\* tick nor a command; so the phase the machine resumes from at the next
\* CYCLE START is exactly the phase it held.
C2_FeedHoldKeepsPhase ==
    [][(~controllerRef.isCycleActive \/ cmds' # cmds)
          => stateRef'.cycleState = stateRef.cycleState]_vars

\* C2 witness: a tick ran under FEED HOLD in the middle of a cycle and the
\* operator has pressed CYCLE START again.
C2_Witness ==
    /\ TickedHeld
    /\ lastTick[1].before.cycleState # "IDLE"
    /\ controllerRef.isCycleActive

\* C3: the wear factor never decreases from one tick to the next and always
\* lies within [0, 1].
C3_WearMonotoneBounded ==
    /\ stateRef.wearFactor >= 0
    /\ stateRef.wearFactor <= 10000
    /\ lastTick # <<>> => stateRef.wearFactor >= lastTick[1].before.wearFactor

\* C3 witness: a cutting tick on a fully worn tool, where the increment
\* would leave the range.
C3_Witness ==
    /\ TickedActive
    /\ lastTick[1].before.cycleState = "CUTTING"
    /\ lastTick[1].before.wearFactor = 10000
    /\ stateRef.wearFactor = 10000

\* C4: a tick changes the phase only while the cycle is active, and only
\* along IDLE -> RAPID_DOWN, RAPID_DOWN -> CUTTING (Z at or past the
\* workpiece surface), CUTTING -> RETRACT (Z at or past the bottom),
\* RETRACT -> RAPID_DOWN (Z at or above the retract height); IDLE is never
\* entered again.
C4_LegalTransitions ==
    lastTick # <<>> =>
        LET b == lastTick[1].before
            a == stateRef.cycleState
        IN  a # b.cycleState =>
                /\ lastTick[1].ctl.isCycleActive
                /\ a # "IDLE"
                /\ \/ b.cycleState = "IDLE" /\ a = "RAPID_DOWN"
                   \/ /\ b.cycleState = "RAPID_DOWN" /\ a = "CUTTING"
                      /\ b.zPos >= WORKPIECE_Z
                   \/ /\ b.cycleState = "CUTTING" /\ a = "RETRACT"
                      /\ b.zPos >= BOTTOM_Z
                   \/ /\ b.cycleState = "RETRACT" /\ a = "RAPID_DOWN"
                      /\ b.zPos <= RETRACT_Z

\* C4 witness: the tick that closes the cycle, RETRACT -> RAPID_DOWN.
C4_Witness ==
    /\ TickedActive
    /\ lastTick[1].before.cycleState = "RETRACT"
    /\ stateRef.cycleState = "RAPID_DOWN"

(***************************************************************************)
(* The end-to-end run: CYCLE START at time 0, then the nominal frames      *)
(***************************************************************************)
MaxE2ETicks == 1500

E2EStart ==
    /\ cmds = 0
    /\ Command(handleStart(Sys))

E2ETick ==
    /\ cmds = 1
    /\ ticks < MaxE2ETicks
    /\ Becomes(loop(Sys, frameTime + NominalInput.delta, NominalInput.rnd))
    /\ ticks' = ticks + 1
    /\ cmds' = cmds

InitE2E ==
    /\ Is(Mounted)
    /\ ticks = 0
    /\ cmds = 0

NextE2E ==
    \/ E2EStart
    \/ E2ETick

SpecE2E == InitE2E /\ [][NextE2E]_vars

\* The phases entered so far begin with the first full cycle.
FirstCycleDone ==
    /\ Len(phaseLog) >= 5
    /\ SubSeq(phaseLog, 1, 5)
         = <<"IDLE", "RAPID_DOWN", "CUTTING", "RETRACT", "RAPID_DOWN">>

\* C5 as stated: with the cycle active from the initial state on, feed and
\* spindle at 1.0, the first full cycle (IDLE, RAPID_DOWN, CUTTING, RETRACT,
\* RAPID_DOWN) is complete after 1000 ticks.
C5_FirstCycleWithin1000 ==
    ticks = 1000 => FirstCycleDone

\* C5 amended: under the same command the first full cycle is complete
\* after 1500 ticks.
C5_FirstCycleWithin1500 ==
    ticks = 1500 => FirstCycleDone

\* C5 witness: the run has made its 1500 ticks and the cycle has closed.
C5_Witness ==
    /\ ticks = 1500
    /\ controllerRef.isCycleActive
    /\ phaseLog = <<"IDLE", "RAPID_DOWN", "CUTTING", "RETRACT", "RAPID_DOWN">>

(***************************************************************************)
(* Properties of the cycle report (App.tsx, cycle summary effect)          *)
(***************************************************************************)

\* C6: the report's toolWearDelta is the integrator's wear factor at the
\* falling edge of the cycle minus its wear factor at the rising edge.
C6_ReportWearDelta ==
    report # <<>> => report[1].toolWearDelta = cycleEdge.wearDelta

\* C7: the report's avgLoad is the arithmetic mean of the motor loads of the
\* ticks of the cycle, each counted once (to 0.002 percent, the rounding of
\* the two means).
C7_ReportAvgLoad ==
    report # <<>> => Abs(report[1].avgLoad - cycleEdge.meanTickLoad) <= 2

\* C8: a report has been emitted for every true -> false transition of
\* isCycleActive and for nothing else: the number of reports emitted equals
\* the number of falling edges in every state, and a report is on display
\* only once one has been emitted.
C8_ReportPerFallingEdge ==
    /\ reportsEmitted = cycleEdge.fallingEdges
    /\ (report # <<>>) <=> (reportsEmitted > 0)

\* C8 witness: a report was emitted at FEED HOLD and a tick has since run
\* with the cycle still held.
C8_Witness ==
    /\ reportsEmitted = 1
    /\ cycleEdge.fallingEdges = 1
    /\ TickedHeld
    /\ ~controllerState.isCycleActive

(***************************************************************************)
(* The scalar RUL (App.tsx, rulPrediction) over drawn samples              *)
(***************************************************************************)

\* The memoised values of the render of the current state.
stats == Stats(telemetry, controllerState)
rul == rulPrediction(stats, Len(trendHistory))

\* Numbers of frames of the nominal run with the machine idle; they leave
\* trend histories of 1, 4, 4, 5 and 7 records.
IdleCheckpoints == {0, 300, 400, 402, 600}

\* Vibration readings of a sample: displacement in nm (rms of one sample in
\* a full window: below 20 um, above 20 um, above 50 um), velocity in um/s
\* (one below the limit 11.2 mm/s rms, the first at it, one well past it),
\* acceleration in mm/s^2.
RulSamples ==
    {[displacement |-> d, velocity |-> v, acceleration |-> a] :
        d \in {0, 150000, 300000}, v \in {5000, 15842, 30000},
        a \in {0, 20000}}

\* A chart update (setTelemetry and the render after it) whose sample has
\* the drawn vibration readings.
Observe(p) ==
    /\ ticks < MaxTicks
    /\ Becomes(CycleSummaryEffect(TrendEffect(
           [Sys EXCEPT !.telemetry =
               PushTelemetry(@, [timestamp |-> simulationState.t,
                                 displacement |-> p.displacement,
                                 velocity |-> p.velocity,
                                 acceleration |-> p.acceleration,
                                 zPos |-> simulationState.zPos,
                                 torque |-> 0,
                                 rpm |-> TARGET_RPC,
                                 motorLoad |-> 20000,
                                 temperature |-> stateRef.temperature])])))
    /\ ticks' = ticks + 1
    /\ cmds' = cmds

InitRul ==
    /\ \E n \in IdleCheckpoints : Is(Advance(Mounted, n))
    /\ ticks = 0
    /\ cmds = 0

NextRul == \E p \in RulSamples : Observe(p)

SpecRul == InitRul /\ [][NextRul]_vars

\* C9: whenever the current value V0 = peakVelocity * 1000 * 0.707 is at or
\* above the critical limit 11.2 mm/s, the scalar RUL is exactly 0,
\* whatever the trend history holds.
C9_RulZeroPastLimit ==
    RmsVelocity(stats) >= 11200 => rul = 0

\* C10: the scalar RUL is either the sentinel -1 or a non-negative time,
\* and a computed lambda <= 0 yields the sentinel.
C10_RulSentinelOrTime ==
    /\ rul = -1 \/ rul >= 0
    /\ RulLambda(stats) <= 0 => rul = -1

\* C10 witness: with five trend records three outcomes are reached in turn
\* by samples; here the computed one, a positive time below the limit.
C10_Witness ==
    /\ Len(trendHistory) >= 5
    /\ RmsVelocity(stats) < 11200
    /\ stats.status = "CRITICAL"
    /\ rul > 0

(***************************************************************************)
(* The telemetry buffer and the views of it, over longer runs of frames    *)
(***************************************************************************)
MaxBufferTicks == 5

\* Numbers of frames of the nominal run with the machine idle: they leave
\* 30, 127 and 200 samples in the buffer, the last with a trend history of
\* 60 records one tick before the next half second.
BufferCheckpoints == {90, 381, 5998}

BufferTick ==
    /\ ticks < MaxBufferTicks
    /\ \E in \in FrameInputs :
          Becomes(loop(Sys, frameTime + in.delta, in.rnd))
    /\ ticks' = ticks + 1
    /\ cmds' = cmds

InitBuffer ==
    /\ \E n \in BufferCheckpoints : Is(Advance(Mounted, n))
    /\ ticks = 0
    /\ cmds = 0

NextBuffer == BufferTick

SpecBuffer == InitBuffer /\ [][NextBuffer]_vars

\* The spectrum of the render of the current state, and the N it uses.
spectrum == spectrumData(telemetry)
SpectrumN == Min(Len(telemetry), 128)

C12_EmptyBufferStats ==
    telemetry = <<>> =>
        stats = [rmsDisplacement |-> 0, peakVelocity |-> 0,
                 rmsAcceleration |-> 0, dominantFrequency |-> 0,
                 avgLoad |-> 0, status |-> "OPTIMAL"]

\* C12 witness: the buffer is still empty after a tick, with the cycle
\* started and the spindle at 150 percent.
C12_Witness ==
    /\ telemetry = <<>>
    /\ lastTick # <<>>
    /\ controllerState.isCycleActive
    /\ controllerState.spindleOverride = 15

(***************************************************************************)
(* Properties of one tick under different Math.random() draws              *)
(***************************************************************************)

\* The draws a tick may make, and what the next tick yields under each.
TickDraws == {in.rnd : in \in FrameInputs} \cup {NominalInput.rnd}
StepOutcomes ==
    {stepPhysics(stateRef, MACHINE_CONSTANTS, controllerRef, rnd) :
        rnd \in TickDraws}

\* The part of a tick's outcome that the axis motion consists of.
Kinematics(outcome) ==
    [t |-> outcome.state.t, zPos |-> outcome.state.zPos,
     zVel |-> outcome.state.zVel, cycleState |-> outcome.state.cycleState]

C14_AxisWithinTravel ==
    /\ stateRef.zPos >= 0
    /\ stateRef.zPos <= BOTTOM_Z

(***************************************************************************)
(* Properties of the telemetry buffer and the trend history                *)
(***************************************************************************)

\* C15: the sample of every tick is appended to the telemetry buffer, so
\* after a tick the newest sample of the buffer is that tick's sample.
C15_EveryTickBuffered ==
    lastTick # <<>> =>
        /\ telemetry # <<>>
        /\ telemetry[Len(telemetry)] = lastTick[1].dataPoint

\* The buffer holds at most MAX_HISTORY samples, in strictly increasing
\* order of timestamp.
BufferOrdered ==
    /\ Len(telemetry) <= MAX_HISTORY
    /\ \A i \in 1..(Len(telemetry) - 1) :
          telemetry[i].timestamp < telemetry[i + 1].timestamp

\* C16: the buffer holds at most K = MAX_HISTORY samples in strictly
\* increasing timestamp order, and a chart update, the only step that
\* changes it, appends the tick's sample and drops the oldest sample, and
\* only that one, when the buffer was full.
C16_BufferKeepsNewest ==
    /\ BufferOrdered
    /\ [][/\ BufferOrdered'
          /\ telemetry' # telemetry => lastChartUpdate' # lastChartUpdate
          /\ lastChartUpdate' # lastChartUpdate =>
                telemetry' =
                    IF Len(telemetry) < MAX_HISTORY
                    THEN Append(telemetry, lastTick'[1].dataPoint)
                    ELSE Append(Tail(telemetry), lastTick'[1].dataPoint)]_vars

\* C16 witness: a chart update on a full buffer has put the tick's sample
\* last.
C16_Witness ==
    /\ Len(telemetry) = MAX_HISTORY
    /\ ticks > 0
    /\ lastChartUpdate = frameTime
    /\ telemetry[MAX_HISTORY] = lastTick[1].dataPoint

\* C17: any two adjacent samples of the buffer have timestamps exactly one
\* DT apart, the 200 Hz the spectrum assumes.
C17_SamplesOneDtApart ==
    \A i \in 1..(Len(telemetry) - 1) :
        telemetry[i + 1].timestamp - telemetry[i].timestamp = DT

\* The trend history holds at most 60 records, their times are half-second
\* buckets in strictly increasing order.
TrendOrdered ==
    /\ Len(trendHistory) <= 60
    /\ \A i \in 1..Len(trendHistory) : trendHistory[i].time % 500 = 0
    /\ \A i \in 1..(Len(trendHistory) - 1) :
          trendHistory[i].time < trendHistory[i + 1].time

\* C20: a trend record is appended only for the bucket floor(2t)/2 of the
\* rendered time and only when that bucket is later than the last record's
\* time; so the times are strictly increasing, one record per bucket at
\* most; the history never exceeds 60 records, the oldest dropped first.
C20_TrendBuckets ==
    /\ TrendOrdered
    /\ [][/\ TrendOrdered'
          /\ trendHistory' # trendHistory =>
                LET new == trendHistory'[Len(trendHistory')]
                IN  /\ new.time = (simulationState'.t \div 500) * 500
                    /\ new.time > trendHistory[Len(trendHistory)].time
                    /\ trendHistory' =
                          IF Len(trendHistory) < 60
                          THEN Append(trendHistory, new)
                          ELSE Append(Tail(trendHistory), new)]_vars

\* C20 witness: the 61st bucket has been recorded and the record of time 0
\* dropped.
C20_Witness ==
    /\ Len(trendHistory) = 60
    /\ trendHistory[1].time = 500
    /\ trendHistory[60].time = 30000

(***************************************************************************)
(* The status classifications over drawn samples                           *)
(***************************************************************************)
MaxHealthSamples == 2

\* Readings of a sample on either side of the thresholds of stats:
\* displacement in nm (20 and 50 um), motor load in 1e-3 percent (80 and
\* 95 percent).
HealthSamples ==
    {[displacement |-> disp, motorLoad |-> load] :
        disp \in {0, 20000, 21000, 50000, 51000},
        load \in {80000, 80001, 95000, 95001}}

\* A chart update (setTelemetry and the render after it) whose sample has
\* the drawn displacement and motor load.
ObserveHealth(p) ==
    /\ ticks < MaxHealthSamples
    /\ Becomes(CycleSummaryEffect(TrendEffect(
           [Sys EXCEPT !.telemetry =
               PushTelemetry(@, [timestamp |-> simulationState.t,
                                 displacement |-> p.displacement,
                                 velocity |-> 0,
                                 acceleration |-> 0,
                                 zPos |-> simulationState.zPos,
                                 torque |-> 0,
                                 rpm |-> TARGET_RPC,
                                 motorLoad |-> p.motorLoad,
                                 temperature |-> stateRef.temperature])])))
    /\ ticks' = ticks + 1
    /\ cmds' = cmds

InitHealth ==
    /\ Is(Mounted)
    /\ ticks = 0
    /\ cmds = 0

NextHealth == \E p \in HealthSamples : ObserveHealth(p)

SpecHealth == InitHealth /\ [][NextHealth]_vars

\* The order of the statuses by severity.
Severity(status) ==
    IF status = "CRITICAL" THEN 2 ELSE IF status = "WARNING" THEN 1 ELSE 0

\* C18: over a non-empty window the status is CRITICAL iff rmsDisplacement
\* > 0.00005 or avgLoad > 95, else WARNING iff rmsDisplacement > 0.00002 or
\* avgLoad > 80, else OPTIMAL; and raising either metric with the other
\* fixed never lowers the severity.
C18_StatusClassification ==
    /\ telemetry # <<>> =>
          LET critical == stats.rmsDisplacement > 50000
                          \/ stats.avgLoad > 95000
              warning == stats.rmsDisplacement > 20000
                         \/ stats.avgLoad > 80000
          IN  /\ stats.status = "CRITICAL" <=> critical
              /\ stats.status = "WARNING" <=> (~critical /\ warning)
              /\ stats.status = "OPTIMAL" <=> (~critical /\ ~warning)
    /\ \A p, q \in HealthSamples :
          (p.displacement <= q.displacement /\ p.motorLoad <= q.motorLoad)
              => Severity(HealthStatus(p.displacement, p.motorLoad))
                   <= Severity(HealthStatus(q.displacement, q.motorLoad))

\* C18 witness: a window of two samples that is CRITICAL by its load alone.
C18_Witness ==
    /\ Len(telemetry) = 2
    /\ stats.rmsDisplacement <= 20000
    /\ stats.avgLoad > 95000
    /\ stats.status = "CRITICAL"

\* C19 as stated: given the same vibration value and the same load value,
\* the report's classification and the aggregator's return the same status.
\* The value is the window's rmsDisplacement; FinalStatus takes it in 1e-3
\* and HealthStatus in 1e-9 of the unit of the source.
C19_SameStatusAsAggregator ==
    telemetry # <<>> =>
        FinalStatus(stats.rmsDisplacement \div 1000000, stats.avgLoad)
            = HealthStatus(stats.rmsDisplacement, stats.avgLoad)

\* C19 amended: the two classifications share the load thresholds: given
\* the same load value, and a vibration value below the low threshold of
\* each, they return the same status.
C19_SameLoadThresholds ==
    telemetry # <<>> =>
        FinalStatus(0, stats.avgLoad) = HealthStatus(0, stats.avgLoad)

\* C19 witness: a window whose load alone makes both classifications
\* WARNING, at the edge of CRITICAL.
C19_Witness ==
    /\ telemetry # <<>>
    /\ stats.avgLoad = 95000
    /\ FinalStatus(0, stats.avgLoad) = "WARNING"
    /\ HealthStatus(0, stats.avgLoad) = "WARNING"

(***************************************************************************)
(* The forecast curve (SpecRul)                                            *)
(***************************************************************************)
latestTelemetry == LatestTelemetry(telemetry)
prediction == predictionResult(stats, trendHistory, latestTelemetry)

\* The steps of a forecast whose value is at or above its critical limit.
ForecastHits(p) ==
    {i \in 1..Len(p.forecast) : p.forecast[i].forecast >= p.limit}

\* C21: the forecast has 21 steps; failureTime is the time of the earliest
\* step whose value is at or above the critical limit 11.2 mm/s, and it is
\* the sentinel -1 exactly when no step reaches the limit.
C21_ForecastFailureTime ==
    LET p == prediction
        hits == ForecastHits(p)
    IN  /\ Len(p.forecast) = 21
        /\ p.failureTime = -1 <=> hits = {}
        /\ hits # {} =>
               \E i \in hits :
                   /\ \A j \in hits : i <= j
                   /\ p.failureTime = p.forecast[i].rawTime

\* C21 witness: a forecast that starts below the limit and crosses it within
\* the horizon, with further steps past the crossing.
C21_Witness ==
    LET p == prediction
    IN  /\ p.forecast[1].forecast < p.limit
        /\ Cardinality(ForecastHits(p)) >= 2
        /\ p.failureTime > 0

\* C22: the scalar RUL and the forecast curve use the same decay rate
\* lambda = stressFactor * (1 + rmsAcceleration / 10) * viscosityFactor *
\* temperatureFactor for the same statistics and the same latest sample.
C22_SameLambda ==
    RulLambda(stats) = prediction.lambda

(***************************************************************************)
(* Operator controls and the integrator (Spec)                             *)
(***************************************************************************)

\* C23: in every controller state reached through the operator controls,
\* feedOverride and spindleOverride lie in [0, 1.5] (tenths: 0..15).
C23_OverridesWithinRange ==
    /\ controllerState.feedOverride \in 0..15
    /\ controllerState.spindleOverride \in 0..15

\* C24: a tick is computed against one command, the one the controller
\* holds when the tick starts: the new integrator state and the sample are
\* those of stepPhysics on the state and the command of the tick's start.
\* A command changes neither the integrator state nor the latest tick; it
\* is in controllerRef when the next tick starts.
C24_TickReadsOneCommand ==
    [][/\ ticks' # ticks =>
              \E in \in FrameInputs :
                  LET step == stepPhysics(stateRef, MACHINE_CONSTANTS,
                                          controllerState, in.rnd)
                  IN  /\ stateRef' = step.state
                      /\ lastTick'[1].dataPoint = step.dataPoint
                      /\ lastTick'[1].ctl = controllerState
       /\ cmds' # cmds =>
              /\ stateRef' = stateRef
              /\ lastTick' = lastTick
              /\ controllerRef' = controllerState']_vars

\* C24 witness: a feed override of 200 % was commanded and the tick after
\* it ran with it.
C24_Witness ==
    /\ cmds > 0
    /\ ticks > 0
    /\ lastTick # <<>>
    /\ lastTick[1].ctl.feedOverride = 20
    /\ lastTick[1].ctl = controllerState

\* C25: a tick that starts in CUTTING with the cycle active and draws a
\* cutting force above 150 N adds exactly 0.0001 to the wear, clamped at
\* 1.0; every other tick (feed hold, IDLE, RAPID_DOWN, RETRACT, a force of
\* 150 N or less) and every command leaves the wear as it was.
C25_WearOnlyOnHeavyCut ==
    [][/\ ticks' # ticks =>
              \E in \in FrameInputs :
                  LET step == stepPhysics(stateRef, MACHINE_CONSTANTS,
                                          controllerRef, in.rnd)
                      heavyCut ==
                          /\ controllerRef.isCycleActive
                          /\ stateRef.cycleState = "CUTTING"
                          /\ CuttingForce(MACHINE_CONSTANTS, controllerRef,
                                          in.rnd.force) > 150000
                  IN  /\ stateRef' = step.state
                      /\ lastTick'[1].dataPoint = step.dataPoint
                      /\ stateRef'.wearFactor =
                             IF heavyCut
                             THEN Min(10000, stateRef.wearFactor + 1)
                             ELSE stateRef.wearFactor
       /\ cmds' # cmds => stateRef'.wearFactor = stateRef.wearFactor]_vars

\* C25 witness: a cutting tick that added the increment to the wear.
C25_Witness ==
    /\ ticks > 0
    /\ TickedActive
    /\ lastTick[1].before.cycleState = "CUTTING"
    /\ stateRef.wearFactor = lastTick[1].before.wearFactor + 1

(***************************************************************************)
(* The cycle under a held command (SpecCycle)                              *)
(***************************************************************************)
MaxCycleTicks == 2900

\* States a run starts from, each with the cycle active: the start of the
\* first cycle at feed 50 % and 200 %, the nominal run shortly before each
\* change of phase and on a worn tool, and the cut resumed after a feed
\* hold in the middle of it.
CycleStarts ==
    {handleStart(setFeedOverride(Mounted, v)) : v \in FeedInputs}
      \cup {Advance(handleStart(Mounted), n) : n \in Checkpoints}
      \cup {handleStart(Advance(handleStop(Advance(handleStart(Mounted),
                                                   700)), 40))}

\* A frame of the nominal run: requestAnimationFrame(loop) at the end of
\* loop schedules the next one, always.
CycleTick ==
    /\ ticks < MaxCycleTicks
    /\ Becomes(loop(Sys, frameTime + NominalInput.delta, NominalInput.rnd))
    /\ ticks' = ticks + 1
    /\ cmds' = cmds

\* phaseLog starts anew: it holds the phases entered from the start state on.
InitCycle ==
    /\ \E s \in CycleStarts : Is([s EXCEPT !.phaseLog = <<s.stateRef.cycleState>>])
    /\ ticks = 0
    /\ cmds = 0

NextCycle == CycleTick

\* The count of frames goes up with every frame, and only then: a frame is
\* due as long as the count is below its bound.
FrameDue == ticks < MaxCycleTicks /\ ticks' = ticks + 1

SpecCycle == InitCycle /\ [][NextCycle]_vars /\ WF_ticks(FrameDue)

\* RETRACT was reached and RAPID_DOWN was entered from it.
CycleClosed ==
    \E i \in 1..(Len(phaseLog) - 1) :
        phaseLog[i] = "RETRACT" /\ phaseLog[i + 1] = "RAPID_DOWN"

\* C26: with the cycle held active and the feed override constant and
\* positive, from every start state RETRACT is eventually reached, and after
\* it RAPID_DOWN is entered again; and nothing but the command ends the
\* cycle: the command and the feed stay as they are.
C26_CycleRepeats ==
    /\ <>CycleClosed
    /\ [][/\ controllerRef' = controllerRef
          /\ controllerRef.isCycleActive
          /\ controllerRef.feedOverride > 0]_vars

\* C26 witness: the cycle has closed at feed 50 %, the slowest of the runs.
C26_Witness ==
    /\ CycleClosed
    /\ ticks > 0
    /\ controllerRef.feedOverride = 5

(***************************************************************************)
(* The vibration model (Spec)                                              *)
(***************************************************************************)

\* The Math.random() draws of the noise that a tick can have had.
NoiseDraws ==
    {in.rnd.noise : in \in FrameInputs} \cup {NominalInput.rnd.noise}

\* C27: a tick that ends in RETRACT, with the cycle active or under feed
\* hold, emits a displacement that is the noise alone, cut to a tenth (the
\* forcing contributes nothing), so of magnitude at most 0.05 * noiseLevel.
C27_RetractSuppressed ==
    (lastTick # <<>> /\ stateRef.cycleState = "RETRACT") =>
        LET displacement == lastTick[1].dataPoint.displacement
            noiseLevel == MACHINE_CONSTANTS.noiseLevel
        IN  /\ Abs(displacement) * 20 <= noiseLevel
            /\ \E r \in NoiseDraws :
                   displacement =
                       SMulDiv(((r - 500) * noiseLevel) \div 1000, 1, 10)

\* C27 witness: a tick ran in RETRACT under feed hold and emitted noise.
C27_Witness ==
    /\ ticks > 0
    /\ TickedHeld
    /\ stateRef.cycleState = "RETRACT"
    /\ lastTick[1].dataPoint.displacement # 0

(***************************************************************************)
(* The cycle report and its cycle (Spec)                                   *)
(***************************************************************************)

\* C28: a report depends only on what was observed between its own rising
\* and falling edge. In particular the report of a cycle in which no tick
\* ran (CYCLE START, then FEED HOLD before the next frame) has nothing to
\* show: no vibration, no temperature, no load.
C28_ReportFromOwnCycle ==
    (/\ ~controllerState.isCycleActive
     /\ report # <<>>
     /\ cycleEdge.tickCount = 0) =>
        /\ report[1].maxVibration = 0
        /\ report[1].maxTemp = 0
        /\ report[1].avgLoad = 0

(***************************************************************************)
(* The cut (Spec)                                                          *)
(***************************************************************************)

\* C29: in every state whose phase is CUTTING the axis is at or below the
\* workpiece surface (zPos >= 0.35) and its velocity is not negative, under
\* feed hold too.
C29_CuttingInWorkpiece ==
    stateRef.cycleState = "CUTTING" =>
        /\ stateRef.zPos >= WORKPIECE_Z
        /\ stateRef.zVel >= 0

\* C29 witness: a tick ran under feed hold in CUTTING with the axis still
\* moving.
C29_Witness ==
    /\ ticks > 0
    /\ TickedHeld
    /\ lastTick[1].before.cycleState = "CUTTING"
    /\ stateRef.cycleState = "CUTTING"
    /\ stateRef.zVel > 0

\* C30: with the default machine constants no tick that ends in CUTTING
\* applies the chatter term: the effective stiffness the tick computes is
\* at or above 12000 N/m, and would be so at any wear up to 1.0, whatever
\* the cutting force.
C30_NoChatter ==
    (lastTick # <<>> /\ stateRef.cycleState = "CUTTING") =>
        /\ EffectiveStiffness(MACHINE_CONSTANTS, lastTick[1].before.zPos,
                              stateRef.wearFactor) >= 12000
        /\ EffectiveStiffness(MACHINE_CONSTANTS, lastTick[1].before.zPos,
                              10000) >= 12000

\* C30 witness: a cutting tick on a fully worn tool at feed 200 %, where
\* the cutting force is above the 300 N of the chatter test.
C30_Witness ==
    /\ ticks > 0
    /\ TickedActive
    /\ lastTick[1].before.cycleState = "CUTTING"
    /\ stateRef.cycleState = "CUTTING"
    /\ lastTick[1].ctl.feedOverride = 20
    /\ stateRef.wearFactor = 10000

====
